---- MODULE Spec2Model ----
(***************************************************************************)
(* Model of backend/main.py of the AI Conscious Scheduler: the slot        *)
(* assignment function assign_slots_with_breaks and the realtime session   *)
(* layer (realtime_start, realtime_update, _broadcast_to_session,          *)
(* ws_realtime) running on one asyncio event loop plus a threadpool.       *)
(***************************************************************************)
EXTENDS Integers, Sequences, FiniteSets, TLC

(***************************************************************************)
(* Bounds of the model.                                                    *)
(***************************************************************************)
\* longest arbitrary (mixed-type) prefix of a scheduler input
MaxMixed == 3
\* how many more tasks of the prefix's last type may follow the prefix
MaxRun == 18
\* energies 0..MaxEnergy are fed to the scheduler
MaxEnergy == 7

(***************************************************************************)
(* Scheduler: assign_slots_with_breaks and its helpers.                    *)
(***************************************************************************)
\* energy_slots, lines 78-82
energy_slots ==
    [high   |-> <<"9 AM", "10 AM", "11 AM", "12 PM">>,
     medium |-> <<"1 PM", "2 PM", "3 PM", "4 PM">>,
     low    |-> <<"5 PM", "6 PM", "7 PM", "8 PM">>]

\* sum(energy_slots.values(), []): the dict keeps insertion order
all_slots_flat == energy_slots.high \o energy_slots.medium \o energy_slots.low

\* the mood strings fed to the model; two of them carry upper-case letters
Moods == {"tired", "LOW", "Happy", "focused"}

\* str.lower() on the mood strings of the model
mood_lower(mood) ==
    CASE mood = "LOW"   -> "low"
      [] mood = "Happy" -> "happy"
      [] OTHER          -> mood

\* type_priority.get(t.get('type', ''), 3), lines 85-86
type_priority(t_type) ==
    CASE t_type = "Deep Work" -> 1
      [] t_type = "Creative"  -> 2
      [] t_type = "Shallow"   -> 3
      [] OTHER                -> 3

\* the tasks left in input order
tasks_unsorted(tasks) == tasks

\* sorted(tasks, key=...): Python's sort is stable, so the result is the
\* tasks of key 1 in input order, then those of key 2, then those of key 3
tasks_sorted(tasks) ==
    LET P1(t) == type_priority(t.type) = 1
        P2(t) == type_priority(t.type) = 2
        P3(t) == type_priority(t.type) = 3
    IN  SelectSeq(tasks, P1) \o SelectSeq(tasks, P2) \o SelectSeq(tasks, P3)

\* zone_of with > in the place of every >=
zone_of_strict(t_type, energy, mood) ==
    LET ml == mood_lower(mood) IN
    IF t_type = "Deep Work"
    THEN IF energy > 7 /\ ml \notin {"tired", "low"} THEN "high"
         ELSE IF energy > 4 THEN "medium"
         ELSE "low"
    ELSE IF t_type = "Creative"
    THEN IF ml \in {"happy", "excited", "inspired"}
         THEN (IF energy > 5 THEN "high" ELSE "medium")
         ELSE (IF energy > 5 THEN "medium" ELSE "low")
    ELSE IF energy > 5 THEN "medium" ELSE "low"

\* lines 97-110: the zone of a task
zone_of(t_type, energy, mood) ==
    LET ml == mood_lower(mood) IN
    IF t_type = "Deep Work"
    THEN IF energy >= 7 /\ ml \notin {"tired", "low"} THEN "high"
         ELSE IF energy >= 4 THEN "medium"
         ELSE "low"
    ELSE IF t_type = "Creative"
    THEN IF ml \in {"happy", "excited", "inspired"}
         THEN (IF energy >= 5 THEN "high" ELSE "medium")
         ELSE (IF energy >= 5 THEN "medium" ELSE "low")
    ELSE IF energy >= 5 THEN "medium" ELSE "low"

\* the value None of a failed next(...)
NoSlot == "<None>"

\* first_free without its "if s not in used_slots"
first_free_any(seq, used_slots) == seq[1]

\* next((s for s in seq if s not in used_slots), None)
first_free(seq, used_slots) ==
    LET free == {i \in 1..Len(seq) : seq[i] \notin used_slots}
    IN  IF free = {} THEN NoSlot
        ELSE seq[CHOOSE i \in free : \A j \in free : i <= j]

\* line 120: f"{base_slot} (+{slot_extension_counter // len(all_slots_flat) + 1})"
extended_label(counter) ==
    all_slots_flat[(counter % Len(all_slots_flat)) + 1]
        \o " (+" \o ToString((counter \div Len(all_slots_flat)) + 1) \o ")"

\* lines 118-124: the while True loop; yields the slot and the counter after it
RECURSIVE extend_slot(_, _)
extend_slot(counter, used_slots) ==
    LET new_slot == extended_label(counter)
    IN  IF new_slot \notin used_slots
        THEN [slot |-> new_slot, counter |-> counter + 1]
        ELSE extend_slot(counter + 1, used_slots)

\* lines 113-124: the slot of a task
task_slot(zone, counter, used_slots) ==
    LET slot == first_free(energy_slots[zone], used_slots)
    IN  IF slot # NoSlot THEN [slot |-> slot, counter |-> counter]
        ELSE extend_slot(counter, used_slots)

\* line 141: f"Break (+{slot_extension_counter})"
break_label(counter) == "Break (+" \o ToString(counter) \o ")"

\* break_slot without the label of lines 140-142
break_slot_none(counter, used_slots) ==
    [slot |-> first_free(all_slots_flat, used_slots), counter |-> counter]

\* lines 139-142: the slot of a break
break_slot(counter, used_slots) ==
    LET slot == first_free(all_slots_flat, used_slots)
    IN  IF slot # NoSlot THEN [slot |-> slot, counter |-> counter]
        ELSE [slot |-> break_label(counter), counter |-> counter + 1]

\* lines 144-149: the entry of a break
break_entry(slot) ==
    [time |-> slot, task |-> "Take a short break", type |-> "Break",
     reason |-> "Recharge before next deep work session"]

\* a break after every Deep Work task
break_due_each(t_type, count) == t_type = "Deep Work"

\* lines 136-138: a break follows this task
break_due(t_type, count) == t_type = "Deep Work" /\ count % 2 = 0

\* lines 88-91: the loop's variables before the first task
loop_start ==
    [schedule |-> <<>>, used_slots |-> {}, deep_work_count |-> 0,
     slot_extension_counter |-> 0]

\* lines 93-149: one iteration of the for loop
loop_body(st, task, energy, mood) ==
    LET got   == task_slot(zone_of(task.type, energy, mood),
                           st.slot_extension_counter, st.used_slots)
        used1 == st.used_slots \cup {got.slot}
        sch1  == Append(st.schedule,
                        [time |-> got.slot, task |-> task.task,
                         type |-> task.type, reason |-> task.reason])
        dw1   == IF task.type = "Deep Work" THEN st.deep_work_count + 1
                 ELSE st.deep_work_count
        brk   == break_slot(got.counter, used1)
    IN  IF break_due(task.type, dw1)
        THEN [schedule |-> Append(sch1, break_entry(brk.slot)),
              used_slots |-> used1 \cup {brk.slot},
              deep_work_count |-> dw1,
              slot_extension_counter |-> brk.counter]
        ELSE [schedule |-> sch1, used_slots |-> used1,
              deep_work_count |-> dw1,
              slot_extension_counter |-> got.counter]

RECURSIVE run_loop(_, _, _, _)
run_loop(st, tasks, energy, mood) ==
    IF tasks = <<>> THEN st
    ELSE run_loop(loop_body(st, Head(tasks), energy, mood), Tail(tasks),
                  energy, mood)

\* lines 76-151
assign_slots_with_breaks(tasks, energy, mood) ==
    run_loop(loop_start, tasks_sorted(tasks), energy, mood).schedule

(***************************************************************************)
(* The scheduler applied to bounded inputs.                                *)
(***************************************************************************)
\*   in_tasks, in_energy, in_mood   the arguments of the scheduler
\*   out                            the schedule it returned
\*   response                       the latest response of POST /schedule
VARIABLES in_tasks, in_energy, in_mood, out, response

avars == <<in_tasks, in_energy, in_mood, out, response>>

(***************************************************************************)
(* State of the realtime session layer.                                    *)
(*   sessions        _realtime_sessions: session id -> session dict        *)
(*   starting        realtime_start calls between line 304 and line 306    *)
(*   ws_connections  _ws_connections: session id -> a list object          *)
(*   lists           the list objects _ws_connections can refer to         *)
(*   ws              each websocket: its handler's position, its session,  *)
(*                   whether the client is still there                     *)
(*   inbox           the messages each websocket client has received       *)
(*   ready           the event loop's ready queue                          *)
(*   frames          realtime_update calls suspended between two steps     *)
(*   bcasts          the _broadcast_to_session tasks                       *)
(*   n_updates       number of update requests received so far             *)
(*   last            the latest response of realtime_update                *)
(*   produced        history: the schedules written by updates, in order   *)
(*   batch           history: the update requests racing on a session      *)
(***************************************************************************)
VARIABLES sessions, starting, ws_connections, lists, ws, inbox, ready,
          frames, bcasts, n_updates, last, produced, batch

svars == <<sessions, starting, ws_connections, lists, ws, inbox, ready,
           frames, bcasts, n_updates, last, produced, batch>>
vars == <<avars, svars>>

(***************************************************************************)
(* Bounds and input sets of the session layer.                             *)
(***************************************************************************)
\* most tasks in one start request
MaxTasks == 2
\* most update requests received in one run
MaxUpdates == 2
\* most sessions started in one run
MaxSessions == 1

\* the ids uuid4 hands out, in the order it hands them out; no id repeats
SessionIds == <<"s1", "s2">>
AllSids == {SessionIds[i] : i \in 1..Len(SessionIds)}
\* the websockets that may connect
Sockets == {"w1", "w2"}
\* the energies and moods of start requests
SessionEnergies == {8}
SessionMoods == {"focused"}
\* the labels the classifier answers with
LabelTypes == {"Deep Work", "Creative", "Shallow"}
\* the action strings of update requests; "done" is not a known action
Actions == {"completed", "skipped", "done"}

\* the list objects: the one ws_realtime makes when the key is missing
\* (line 385) and the one realtime_start makes (line 306)
ListIds == AllSids \X {"ws", "start"}
\* the empty list a .get(session_id, []) makes and nobody else refers to
FreshList == <<"", "fresh">>

NoSid == ""
NoResult == [error |-> "", schedule |-> <<>>, skipped_count |-> 0]
\* begin and sent are history: the sockets on the list when the task
\* started, and the sockets its sends have reached
NoBcast == [pc |-> "unused", sid |-> NoSid, conns |-> FreshList,
            payload |-> <<>>, i |-> 0, dead |-> <<>>, begin |-> <<>>,
            sent |-> {}]
DoneBcast == [NoBcast EXCEPT !.pc = "done"]
NoBatch == [orig |-> 0, idxs |-> {}, n |-> 0, ran |-> 0, ok |-> FALSE,
            conc |-> FALSE]

InitSession ==
    /\ sessions = <<>>
    /\ starting = {}
    /\ ws_connections = <<>>
    /\ lists = [l \in ListIds |-> <<>>]
    /\ ws = [w \in Sockets |-> [pc |-> "new", sid |-> NoSid, alive |-> FALSE,
                                from |-> 0]]
    /\ inbox = [w \in Sockets |-> <<>>]
    /\ ready = <<>>
    /\ frames = {}
    /\ bcasts = [b \in 1..MaxUpdates |-> NoBcast]
    /\ n_updates = 0
    /\ last = NoResult
    /\ produced = [s \in AllSids |-> <<>>]
    /\ batch = [s \in AllSids |-> NoBatch]

(***************************************************************************)
(* The scheduler applied to bounded inputs.                                *)
(***************************************************************************)
\* the task types a classified task may carry
TaskTypes == {"Deep Work", "Creative", "Shallow", "Unknown"}

\* no schedule computed for the current input
NoOut == [done |-> FALSE, schedule |-> <<>>]

\* the i-th task of an input: its text is unique in the input
NewTask(i, t_type) ==
    [task |-> "t" \o ToString(i), type |-> t_type, reason |-> "r"]

\* no request to POST /schedule answered yet
NoResponse == [status |-> "none", input |-> <<>>, schedule |-> <<>>]

InitAssign ==
    /\ in_tasks = <<>>
    /\ in_energy \in 0..MaxEnergy
    /\ in_mood \in Moods
    /\ out = NoOut
    /\ response = NoResponse
    /\ InitSession

\* the caller builds its task list: any types up to MaxMixed tasks, then a
\* run of the last type
AddTask ==
    /\ \E t_type \in TaskTypes :
        /\ \/ Len(in_tasks) < MaxMixed
           \/ /\ Len(in_tasks) < MaxMixed + MaxRun
              /\ in_tasks # <<>>
              /\ t_type = in_tasks[Len(in_tasks)].type
        /\ in_tasks' = Append(in_tasks, NewTask(Len(in_tasks) + 1, t_type))
    /\ out' = NoOut
    /\ UNCHANGED <<in_energy, in_mood, response, svars>>

\* the call assign_slots_with_breaks(tasks, energy, mood)
Assign ==
    /\ ~out.done
    /\ out' = [done |-> TRUE,
               schedule |-> assign_slots_with_breaks(in_tasks, in_energy,
                                                     in_mood)]
    /\ UNCHANGED <<in_tasks, in_energy, in_mood, response, svars>>

NextAssign == AddTask \/ Assign

SpecAssign == InitAssign /\ [][NextAssign]_vars

(***************************************************************************)
(* Schedule generation and the start of a session.                         *)
(***************************************************************************)
\* input.tasks of a request with n tasks
InputTasks(n) == [i \in 1..n |-> "t" \o ToString(i)]

\* what the classifier call comes back with: a JSON list of labelled items
\* for the first k tasks (one per task when k is the number of tasks), a
\* JSON list whose items are no objects, JSON that is no list, or an
\* exception (the call fails, or the text is no JSON)
Replies(tasks) ==
    UNION {{[kind |-> "list",
             items |-> [i \in 1..k |->
                    [task |-> tasks[i], type |-> types[i], reason |-> "r"]]]
                : types \in [1..k -> LabelTypes]} : k \in 0..Len(tasks)}
    \cup {[kind |-> "non_dict_list", items |-> <<>>],
          [kind |-> "not_list", items |-> <<>>],
          [kind |-> "exception", items |-> <<>>]}

\* lines 214 and 222: every task labelled Unknown
fallback(tasks) ==
    [i \in 1..Len(tasks) |-> [task |-> tasks[i], type |-> "Unknown",
                              reason |-> ""]]

\* line 224 is outside the try: t.get on an item that is no dict raises
\* AttributeError at line 86 (line 94 for a single item) and the request
\* fails
generate_raises(reply) == reply.kind = "non_dict_list"

\* lines 164-225; the value of the "schedule" key of the result
generate_schedule(tasks, energy, mood, reply) ==
    LET schedule == IF reply.kind = "list" THEN reply.items
                    ELSE fallback(tasks)
    IN  assign_slots_with_breaks(schedule, energy, mood)

\* lines 288-295: the task dicts rebuilt from the schedule's items
classified_of(schedule_list) ==
    [i \in 1..Len(schedule_list) |->
        [task |-> schedule_list[i].task, type |-> schedule_list[i].type,
         reason |-> schedule_list[i].reason]]

\* line 282: uuid4 never hands out an id twice
make_session_id == SessionIds[Cardinality(DOMAIN sessions) + 1]

\* d[k] = v on a dict
Store(d, k, v) == [x \in DOMAIN d \cup {k} |-> IF x = k THEN v ELSE d[x]]

\* the start requests: their tasks, energy, mood and the classifier's reply
StartInputs ==
    UNION {{[tasks |-> InputTasks(n), energy |-> energy, mood |-> mood,
             reply |-> reply] :
                energy \in SessionEnergies, mood \in SessionMoods,
                reply \in Replies(InputTasks(n))} : n \in 0..MaxTasks}

\* realtime_start, lines 282-304; it runs in the threadpool, so the event
\* loop may run between this step and the next.  The "input" entry of the
\* session dict (line 298) is never read and is left out.
Start(inputs) ==
    /\ Cardinality(DOMAIN sessions) < MaxSessions
    /\ \E in \in inputs :
        LET sid == make_session_id
            schedule_list ==
                generate_schedule(in.tasks, in.energy, in.mood, in.reply)
        IN  /\ ~generate_raises(in.reply)
            /\ sessions' = Store(sessions, sid,
                    [energy |-> in.energy, mood |-> in.mood,
                     classified_tasks |-> classified_of(schedule_list),
                     current_schedule |-> schedule_list,
                     skipped |-> <<>>])
            /\ starting' = starting \cup {sid}
    /\ UNCHANGED <<avars, ws_connections, lists, ws, inbox, ready, frames,
                   bcasts, n_updates, last, produced, batch>>

\* realtime_start, lines 306-307
StartInitWs ==
    /\ \E sid \in starting :
        /\ lists' = [lists EXCEPT ![<<sid, "start">>] = <<>>]
        /\ ws_connections' = Store(ws_connections, sid, <<sid, "start">>)
        /\ starting' = starting \ {sid}
    /\ UNCHANGED <<avars, sessions, ws, inbox, ready, frames, bcasts,
                   n_updates, last, produced, batch>>

\* the requests to POST /schedule
GenerateInputs ==
    UNION {{[tasks |-> InputTasks(n), energy |-> energy, mood |-> mood,
             reply |-> reply] :
                energy \in 0..MaxEnergy, mood \in Moods,
                reply \in Replies(InputTasks(n))} : n \in 0..MaxTasks}

\* POST /schedule, lines 163-225
Generate(inputs) ==
    /\ \E in \in inputs :
        response' =
            IF generate_raises(in.reply)
            THEN [status |-> "error", input |-> in, schedule |-> <<>>]
            ELSE [status |-> "ok", input |-> in,
                  schedule |-> generate_schedule(in.tasks, in.energy,
                                                 in.mood, in.reply)]
    /\ UNCHANGED <<in_tasks, in_energy, in_mood, out, svars>>

(***************************************************************************)
(* The event loop.  realtime_update, _broadcast_to_session and ws_realtime *)
(* are coroutines of one loop: one of them runs at a time, from the head   *)
(* of the ready queue up to its next await.                                *)
(***************************************************************************)
Item(kind, sid, idx, action, b, w) ==
    [kind |-> kind, sid |-> sid, idx |-> idx, action |-> action, b |-> b,
     w |-> w]

\* a loop that would run a coroutine while another is in the middle of a
\* step, as a threadpool would
LoopAlwaysFree == TRUE

\* no coroutine is between two of its steps without having awaited:
\* realtime_update is an async def with no await in it (lines 317-357), and
\* _broadcast_to_session gives the loop up only at line 260
LoopFree ==
    /\ frames = {}
    /\ \A b \in DOMAIN bcasts : bcasts[b].pc # "running"

HeadIs(kind) == ready # <<>> /\ Head(ready).kind = kind

(***************************************************************************)
(* realtime_update                                                         *)
(***************************************************************************)
\* the task indexes update requests carry
Indexes == -1..(MaxTasks + 1)

\* an update request for sid is waiting or running
UpdatePending(sid) ==
    \/ \E i \in 1..Len(ready) : ready[i].kind = "update" /\ ready[i].sid = sid
    \/ \E f \in frames : f.sid = sid

\* history: the requests that race on a session, from the moment the first
\* of them arrives with no other request of the session under way
BatchArrive(sid, idx, action) ==
    LET b    == batch[sid]
        len  == IF sid \in DOMAIN sessions
                THEN Len(sessions[sid].classified_tasks) ELSE 0
        orig == IF UpdatePending(sid) THEN b.orig ELSE len
        good == /\ sid \in DOMAIN sessions
                /\ 0 <= idx /\ idx < orig
                /\ action \in {"completed", "skipped"}
    IN  IF UpdatePending(sid)
        THEN [orig |-> orig, idxs |-> b.idxs \cup {idx}, n |-> b.n + 1,
              ran |-> b.ran,
              ok |-> b.ok /\ b.ran = 0 /\ idx \notin b.idxs /\ good,
              conc |-> TRUE]
        ELSE [orig |-> orig, idxs |-> {idx}, n |-> 1, ran |-> 0,
              ok |-> good, conc |-> b.conc]

\* the update requests
Requests == [sid : AllSids, idx : Indexes, action : Actions]

\* a POST /realtime/update request reaches the server; a request for an id
\* that names no session is turned down whatever its index and action are
UpdateArrive(requests) ==
    /\ n_updates < MaxUpdates
    /\ \E rq \in requests :
        /\ rq.sid \notin DOMAIN sessions
                => rq.idx = 0 /\ rq.action = "completed"
        /\ ready' = Append(ready, Item("update", rq.sid, rq.idx, rq.action,
                                       0, ""))
        /\ batch' = [batch EXCEPT ![rq.sid] =
                        BatchArrive(rq.sid, rq.idx, rq.action)]
    /\ n_updates' = n_updates + 1
    /\ UNCHANGED <<avars, sessions, starting, ws_connections, lists, ws,
                   inbox, frames, bcasts, last, produced>>

\* list.pop(idx): a negative index counts from the end of the list
py_index(seq, idx) == IF idx < 0 THEN idx + Len(seq) ELSE idx
pop_item(seq, idx) == seq[py_index(seq, idx) + 1]
pop_rest(seq, idx) ==
    SubSeq(seq, 1, py_index(seq, idx))
        \o SubSeq(seq, py_index(seq, idx) + 2, Len(seq))

\* update_check taking a negative index that list.pop would take
update_check_negative(table, sid, idx) ==
    IF sid \notin DOMAIN table THEN "session_not_found"
    ELSE IF idx < 0 - Len(table[sid].classified_tasks)
            \/ idx >= Len(table[sid].classified_tasks)
         THEN "invalid_task_index"
         ELSE ""

\* lines 325-333: the error the request is turned down with, "" if none
update_check(table, sid, idx) ==
    IF sid \notin DOMAIN table THEN "session_not_found"
    ELSE IF idx < 0 \/ idx >= Len(table[sid].classified_tasks)
         THEN "invalid_task_index"
         ELSE ""

\* update_mutate putting the task on the skipped list whatever the action
update_mutate_skips(sess, idx, action) ==
    LET task_obj == pop_item(sess.classified_tasks, idx)
        moved    == [sess EXCEPT
                        !.classified_tasks = pop_rest(@, idx),
                        !.skipped = Append(@, task_obj)]
    IN  IF action \in {"completed", "skipped"}
        THEN [sess |-> moved, error |-> ""]
        ELSE [sess |-> moved, error |-> "invalid_action"]

\* lines 336-345: the session after them, and the error returned, "" if none
update_mutate(sess, idx, action) ==
    LET task_obj == pop_item(sess.classified_tasks, idx)
        popped   == [sess EXCEPT
                        !.classified_tasks = pop_rest(@, idx)]
    IN  IF action = "completed" THEN [sess |-> popped, error |-> ""]
        ELSE IF action = "skipped"
        THEN [sess |-> [popped EXCEPT !.skipped = Append(@, task_obj)],
              error |-> ""]
        ELSE [sess |-> popped, error |-> "invalid_action"]

\* line 348
update_recompute(sess) ==
    assign_slots_with_breaks(sess.classified_tasks, sess.energy, sess.mood)

ErrorResult(name) == [NoResult EXCEPT !.error = name]

RanOne(sid) == [batch EXCEPT ![sid].ran = @ + 1]

\* realtime_update up to an error return (lines 325-345)
UpdateReject ==
    /\ LoopFree /\ HeadIs("update")
    /\ LET it  == Head(ready)
           err == update_check(sessions, it.sid, it.idx)
       IN  /\ IF err # "" THEN TRUE
              ELSE update_mutate(sessions[it.sid], it.idx,
                                 it.action).error # ""
           /\ IF err # ""
              THEN /\ last' = ErrorResult(err)
                   /\ UNCHANGED sessions
              ELSE LET m == update_mutate(sessions[it.sid], it.idx, it.action)
                   IN  /\ last' = ErrorResult(m.error)
                       /\ sessions' = [sessions EXCEPT ![it.sid] = m.sess]
           /\ batch' = RanOne(it.sid)
    /\ ready' = Tail(ready)
    /\ UNCHANGED <<avars, starting, ws_connections, lists, ws, inbox, frames,
                   bcasts, n_updates, produced>>

\* realtime_update up to the new schedule (lines 325-348)
UpdateBegin ==
    /\ LoopFree /\ HeadIs("update")
    /\ LET it == Head(ready) IN
        /\ update_check(sessions, it.sid, it.idx) = ""
        /\ LET m == update_mutate(sessions[it.sid], it.idx, it.action) IN
            /\ m.error = ""
            /\ sessions' = [sessions EXCEPT ![it.sid] = m.sess]
            /\ frames' = frames \cup
                    {[sid |-> it.sid, idx |-> it.idx, action |-> it.action,
                      new_schedule |-> update_recompute(m.sess),
                      pre |-> sessions[it.sid]]}
        /\ batch' = RanOne(it.sid)
    /\ ready' = Tail(ready)
    /\ UNCHANGED <<avars, starting, ws_connections, lists, ws, inbox, bcasts,
                   n_updates, last, produced>>

\* the id of the next broadcast task
NextBcast == CHOOSE b \in DOMAIN bcasts :
                /\ bcasts[b].pc = "unused"
                /\ \A c \in DOMAIN bcasts : bcasts[c].pc = "unused" => b <= c

\* realtime_update from the store of the schedule to the return
\* (lines 349-357); create_task puts the broadcast on the ready queue
UpdateEnd ==
    /\ \E f \in frames :
        LET b == NextBcast IN
        /\ sessions' = [sessions EXCEPT
                            ![f.sid].current_schedule = f.new_schedule]
        /\ bcasts' = [bcasts EXCEPT ![b] = [NoBcast EXCEPT !.pc = "created",
                                                           !.sid = f.sid]]
        /\ ready' = Append(ready, Item("bcast", f.sid, 0, "", b, ""))
        /\ last' = [error |-> "", schedule |-> f.new_schedule,
                    skipped_count |-> Len(sessions[f.sid].skipped)]
        /\ produced' = [produced EXCEPT ![f.sid] =
                            Append(@, [schedule |-> f.new_schedule,
                                       action |-> f.action])]
        /\ frames' = frames \ {f}
    /\ UNCHANGED <<avars, starting, ws_connections, lists, ws, inbox,
                   n_updates, batch>>

(***************************************************************************)
(* _broadcast_to_session                                                   *)
(***************************************************************************)
\* the content of the list object a name refers to
ListOf(lid) == IF lid = FreshList THEN <<>> ELSE lists[lid]

\* _ws_connections.get(session_id, [])
get_conns(sid) ==
    IF sid \in DOMAIN ws_connections THEN ws_connections[sid] ELSE FreshList

Has(seq, x) == \E i \in 1..Len(seq) : seq[i] = x

\* list.remove(x) inside try/except ValueError: the first x goes, if any
list_remove(seq, x) ==
    IF ~Has(seq, x) THEN seq
    ELSE LET k == CHOOSE i \in 1..Len(seq) :
                    seq[i] = x /\ \A j \in 1..(i - 1) : seq[j] # x
         IN  SubSeq(seq, 1, k - 1) \o SubSeq(seq, k + 1, Len(seq))

\* lines 264-268
RECURSIVE remove_dead(_, _)
remove_dead(seq, dead) ==
    IF dead = <<>> THEN seq
    ELSE remove_dead(list_remove(seq, Head(dead)), Tail(dead))

\* line 256
broadcast_payload(sid) ==
    IF sid \in DOMAIN sessions THEN sessions[sid].current_schedule ELSE <<>>

Message(type, schedule) == [type |-> type, schedule |-> schedule]

\* the task starts: lines 255-257
BcastBegin ==
    /\ LoopFree /\ HeadIs("bcast")
    /\ LET b == Head(ready).b IN
        /\ bcasts[b].pc = "created"
        /\ bcasts' = [bcasts EXCEPT ![b] =
                        [@ EXCEPT !.pc = "running",
                                  !.conns = get_conns(bcasts[b].sid),
                                  !.begin =
                                      ListOf(get_conns(bcasts[b].sid)),
                                  !.payload =
                                      broadcast_payload(bcasts[b].sid)]]
    /\ ready' = Tail(ready)
    /\ UNCHANGED <<avars, sessions, starting, ws_connections, lists, ws,
                   inbox, frames, n_updates, last, produced, batch>>

\* one turn of the for loop, lines 258-262: the message goes out at the call
\* of send_json, and the await either comes back at once or gives the loop
\* up.  A send to a client that has gone raises or is lost without a sign.
BcastSend ==
    /\ \E b \in DOMAIN bcasts :
        /\ bcasts[b].pc = "running"
        /\ bcasts[b].i < Len(ListOf(bcasts[b].conns))
        /\ LET w == ListOf(bcasts[b].conns)[bcasts[b].i + 1] IN
           \E raised \in BOOLEAN, pc \in {"running", "suspended"} :
            /\ raised => ~ws[w].alive
            /\ ws[w].alive => ~raised
            /\ inbox' = IF ws[w].alive
                        THEN [inbox EXCEPT ![w] =
                                Append(@, Message("schedule_update",
                                                  bcasts[b].payload))]
                        ELSE inbox
            /\ bcasts' = [bcasts EXCEPT ![b] =
                            [@ EXCEPT !.i = @ + 1,
                                      !.pc = pc,
                                      !.dead = IF raised THEN Append(@, w)
                                               ELSE @,
                                      !.sent = IF ws[w].alive
                                               THEN @ \cup {w} ELSE @]]
    /\ UNCHANGED <<avars, sessions, starting, ws_connections, lists, ws,
                   ready, frames, n_updates, last, produced, batch>>

\* the send a task waits on completes: the task is ready to run again
BcastWake ==
    /\ \E b \in DOMAIN bcasts :
        /\ bcasts[b].pc = "suspended"
        /\ bcasts' = [bcasts EXCEPT ![b].pc = "queued"]
        /\ ready' = Append(ready, Item("bcast", bcasts[b].sid, 0, "", b, ""))
    /\ UNCHANGED <<avars, sessions, starting, ws_connections, lists, ws,
                   inbox, frames, n_updates, last, produced, batch>>

\* the loop runs the task again
BcastContinue ==
    /\ LoopFree /\ HeadIs("bcast")
    /\ LET b == Head(ready).b IN
        /\ bcasts[b].pc = "queued"
        /\ bcasts' = [bcasts EXCEPT ![b].pc = "running"]
    /\ ready' = Tail(ready)
    /\ UNCHANGED <<avars, sessions, starting, ws_connections, lists, ws,
                   inbox, frames, n_updates, last, produced, batch>>

\* the for loop is over: lines 263-270
BcastFinish ==
    /\ \E b \in DOMAIN bcasts :
        LET lid  == bcasts[b].conns
            left == remove_dead(ListOf(lid), bcasts[b].dead)
        IN  /\ bcasts[b].pc = "running"
            /\ bcasts[b].i >= Len(ListOf(lid))
            /\ lists' = IF lid = FreshList THEN lists
                        ELSE [lists EXCEPT ![lid] = left]
            /\ ws_connections' = IF left # <<>>
                                 THEN Store(ws_connections, bcasts[b].sid, lid)
                                 ELSE ws_connections
            /\ bcasts' = [bcasts EXCEPT ![b] = DoneBcast]
    /\ UNCHANGED <<avars, sessions, starting, ws, inbox, ready, frames,
                   n_updates, last, produced, batch>>

(***************************************************************************)
(* ws_realtime                                                             *)
(***************************************************************************)
\* a client opens /ws/realtime/{session_id}; the handler is through
\* websocket.accept() (line 377) and ready to run
WsConnect(sockets) ==
    /\ \E w \in sockets, sid \in AllSids :
        /\ ws[w].pc = "new"
        /\ ws' = [ws EXCEPT ![w] = [pc |-> "accepted", sid |-> sid,
                                    alive |-> TRUE, from |-> 0]]
        /\ ready' = Append(ready, Item("ws", sid, 0, "", 0, w))
    /\ UNCHANGED <<avars, sessions, starting, ws_connections, lists, inbox,
                   frames, bcasts, n_updates, last, produced, batch>>

\* lines 385-387: the list the socket is put on
register_list(sid) ==
    IF sid \in DOMAIN ws_connections THEN ws_connections[sid]
    ELSE <<sid, "ws">>

\* lines 379-382: the session is unknown
WsRefuse ==
    /\ LoopFree /\ HeadIs("ws")
    /\ LET w == Head(ready).w IN
        /\ ws[w].pc = "accepted"
        /\ ws[w].sid \notin DOMAIN sessions
        /\ inbox' = IF ws[w].alive
                    THEN [inbox EXCEPT ![w] =
                            Append(@, [type |-> "error",
                                       schedule |-> <<>>])]
                    ELSE inbox
        /\ ws' = [ws EXCEPT ![w].pc = "closed"]
    /\ ready' = Tail(ready)
    /\ UNCHANGED <<avars, sessions, starting, ws_connections, lists, frames,
                   bcasts, n_updates, last, produced, batch>>

\* a handler that sends no initial message
initial_send_none(box, sid) == box

\* line 391: the initial message goes out to the client
initial_send(box, sid) ==
    Append(box, Message("initial", sessions[sid].current_schedule))

\* lines 384-395: the socket is registered, the initial schedule goes out
\* and the handler waits in receive_text.  If the client has gone already,
\* the send or the receive raises and lines 402-409 take the socket off.
WsOpen ==
    /\ LoopFree /\ HeadIs("ws")
    /\ LET w   == Head(ready).w
           sid == ws[w].sid
           lid == register_list(sid)
       IN
        /\ ws[w].pc = "accepted"
        /\ sid \in DOMAIN sessions
        /\ ws_connections' = Store(ws_connections, sid, lid)
        /\ IF ws[w].alive
           THEN /\ lists' = [lists EXCEPT ![lid] =
                                Append(IF sid \in DOMAIN ws_connections
                                       THEN @ ELSE <<>>, w)]
                /\ inbox' = [inbox EXCEPT ![w] = initial_send(@, sid)]
                /\ ws' = [ws EXCEPT ![w].pc = "listening",
                                    ![w].from = Len(produced[sid])]
           ELSE /\ lists' = [lists EXCEPT ![lid] =
                                IF sid \in DOMAIN ws_connections
                                THEN @ ELSE <<>>]
                /\ inbox' = inbox
                /\ ws' = [ws EXCEPT ![w].pc = "closed"]
    /\ ready' = Tail(ready)
    /\ UNCHANGED <<avars, sessions, starting, frames, bcasts, n_updates,
                   last, produced, batch>>

\* the client goes away; a handler waiting in receive_text is woken with
\* WebSocketDisconnect
WsDisconnect ==
    /\ \E w \in Sockets :
        /\ ws[w].alive
        /\ ws[w].pc \in {"accepted", "listening"}
        /\ IF ws[w].pc = "listening"
           THEN /\ ws' = [ws EXCEPT ![w].alive = FALSE, ![w].pc = "closing"]
                /\ ready' = Append(ready, Item("ws", ws[w].sid, 0, "", 0, w))
           ELSE /\ ws' = [ws EXCEPT ![w].alive = FALSE]
                /\ ready' = ready
    /\ UNCHANGED <<avars, sessions, starting, ws_connections, lists, inbox,
                   frames, bcasts, n_updates, last, produced, batch>>

\* lines 396-409: the handler leaves the loop and takes its socket off
WsClose ==
    /\ LoopFree /\ HeadIs("ws")
    /\ LET w   == Head(ready).w
           lid == get_conns(ws[w].sid)
       IN
        /\ ws[w].pc = "closing"
        /\ lists' = IF lid = FreshList THEN lists
                    ELSE [lists EXCEPT ![lid] = list_remove(@, w)]
        /\ ws' = [ws EXCEPT ![w].pc = "closed"]
    /\ ready' = Tail(ready)
    /\ UNCHANGED <<avars, sessions, starting, ws_connections, inbox, frames,
                   bcasts, n_updates, last, produced, batch>>

(***************************************************************************)
(* The system.                                                             *)
(***************************************************************************)
Init ==
    /\ in_tasks = <<>>
    /\ in_energy = 0
    /\ in_mood = "focused"
    /\ out = NoOut
    /\ response = NoResponse
    /\ InitSession

Next ==
    \/ Start(StartInputs)
    \/ StartInitWs
    \/ UpdateArrive(Requests)
    \/ UpdateReject
    \/ UpdateBegin
    \/ UpdateEnd
    \/ BcastBegin
    \/ BcastSend
    \/ BcastWake
    \/ BcastContinue
    \/ BcastFinish
    \/ WsConnect({"w1"})
    \/ WsRefuse
    \/ WsOpen
    \/ WsDisconnect
    \/ WsClose

Spec == Init /\ [][Next]_vars

(***************************************************************************)
(* The same system with two websockets, fed one start request (MaxTasks    *)
(* tasks, all labelled Deep Work) and the updates that complete the first  *)
(* task of the first session.                                              *)
(***************************************************************************)
HubInputs ==
    {in \in StartInputs :
        /\ Len(in.tasks) = MaxTasks
        /\ in.reply.kind = "list"
        /\ \A i \in 1..Len(in.reply.items) :
                in.reply.items[i].type = "Deep Work"}

HubRequests ==
    {rq \in Requests :
        rq.sid = SessionIds[1] /\ rq.idx = 0 /\ rq.action = "completed"}

NextHub ==
    \/ Start(HubInputs)
    \/ StartInitWs
    \/ UpdateArrive(HubRequests)
    \/ UpdateReject
    \/ UpdateBegin
    \/ UpdateEnd
    \/ BcastBegin
    \/ BcastSend
    \/ BcastWake
    \/ BcastContinue
    \/ BcastFinish
    \/ WsConnect(Sockets)
    \/ WsRefuse
    \/ WsOpen
    \/ WsDisconnect
    \/ WsClose

SpecHub == Init /\ [][NextHub]_vars

(***************************************************************************)
(* Schedule generation alone, over every energy, mood and classifier reply *)
(***************************************************************************)
NextGenerate == Generate(GenerateInputs)

SpecGenerate == Init /\ [][NextGenerate]_vars

(***************************************************************************)
(* Properties.                                                             *)
(***************************************************************************)
BaseSlots == {all_slots_flat[i] : i \in 1..Len(all_slots_flat)}

\* C1: for every task list, energy and mood, the time labels of the schedule
\* assign_slots_with_breaks returns are pairwise distinct, breaks included.
C1_DistinctTimes ==
    out.done =>
        \A i, j \in 1..Len(out.schedule) :
            i # j => out.schedule[i].time # out.schedule[j].time

\* more tasks than base slots, a task and two breaks on made-up labels
C1_Witness ==
    /\ out.done
    /\ Len(in_tasks) > Len(all_slots_flat)
    /\ \E i \in 1..Len(out.schedule) :
        out.schedule[i].type # "Break" /\ out.schedule[i].time \notin BaseSlots
    /\ \E i, j \in 1..Len(out.schedule) :
        /\ i # j
        /\ out.schedule[i].type = "Break" /\ out.schedule[j].type = "Break"
        /\ out.schedule[i].time \notin BaseSlots
        /\ out.schedule[j].time \notin BaseSlots

\* no update call is under way on the session
NoUpdateRunning(sid) == \A f \in frames : f.sid # sid

\* C2: whenever no update call is under way, the stored current_schedule of
\* every session is assign_slots_with_breaks of its task list, energy and
\* mood.
C2_ScheduleOfTasks ==
    \A sid \in DOMAIN sessions :
        NoUpdateRunning(sid) =>
            sessions[sid].current_schedule =
                assign_slots_with_breaks(sessions[sid].classified_tasks,
                                         sessions[sid].energy,
                                         sessions[sid].mood)

\* seq without its element at the 0-based index i
WithoutIndex(seq, i) ==
    [k \in 1..(Len(seq) - 1) |-> IF k <= i THEN seq[k] ELSE seq[k + 1]]

\* how many successful updates of the session were skips
SkippedUpdates(hist) ==
    Cardinality({k \in 1..Len(hist) : hist[k].action = "skipped"})

C3_Step ==
    \A f \in frames :
        f \notin frames' =>
            LET before == f.pre
                after  == sessions'[f.sid]
            IN  /\ after.classified_tasks =
                        WithoutIndex(before.classified_tasks, f.idx)
                /\ after.skipped =
                        IF f.action = "skipped"
                        THEN Append(before.skipped,
                                    before.classified_tasks[f.idx + 1])
                        ELSE before.skipped
                /\ last'.error = ""
                /\ last'.skipped_count = SkippedUpdates(produced'[f.sid])

RunsUpdate == LoopFree /\ HeadIs("update") /\ ready' = Tail(ready)

C4_Step ==
    (RunsUpdate /\ last'.error = "invalid_action"
        /\ Head(ready).action \notin {"completed", "skipped"})
    => sessions' = sessions

\* C4: an update whose action is neither completed nor skipped returns
\* invalid_action and leaves the session's task list, skipped list and
\* schedule as they were.
C4_InvalidActionNoChange == [][C4_Step]_vars

C5_Step ==
    RunsUpdate =>
        LET it == Head(ready)
            untouched == UNCHANGED <<sessions, ws_connections, lists,
                                     bcasts, frames, produced>>
        IN  /\ it.sid \notin DOMAIN sessions
                => last'.error = "session_not_found" /\ untouched
            /\ (/\ it.sid \in DOMAIN sessions
                /\ \/ it.idx < 0
                   \/ it.idx >= Len(sessions[it.sid].classified_tasks))
                => last'.error = "invalid_task_index" /\ untouched

\* C5: an update with an unknown session id returns session_not_found, one
\* with an index below 0 or not below the length of the task list returns
\* invalid_task_index; neither changes a session, a subscriber list or
\* starts a broadcast.
C5_RejectsLeaveState == [][C5_Step]_vars

\* an index that is out of range has been turned down on a session that
\* has tasks and a subscriber
C5_Witness ==
    /\ last.error = "invalid_task_index"
    /\ n_updates = 2
    /\ \E sid \in DOMAIN sessions :
        /\ sid \in DOMAIN ws_connections
        /\ ListOf(ws_connections[sid]) # <<>>
        /\ sessions[sid].classified_tasks # <<>>

\* C6: no entry of type Break is in a session's task list or skipped list.
C6_NoBreakInTasks ==
    \A sid \in DOMAIN sessions :
        /\ \A i \in 1..Len(sessions[sid].classified_tasks) :
                sessions[sid].classified_tasks[i].type # "Break"
        /\ \A i \in 1..Len(sessions[sid].skipped) :
                sessions[sid].skipped[i].type # "Break"

\* C7: once N racing update calls, each with a valid action and an index
\* of its own that is valid in the task list from before the calls, have
\* all run, the task list is N shorter than it was.
C7_ConcurrentUpdatesAllApply ==
    \A sid \in DOMAIN sessions :
        (batch[sid].ok /\ batch[sid].ran = batch[sid].n
            /\ NoUpdateRunning(sid))
        => Len(sessions[sid].classified_tasks)
                = batch[sid].orig - batch[sid].n

\* the whole of realtime_update on a session dict, run alone
update_alone(sess, idx, action) ==
    LET m == update_mutate(sess, idx, action).sess
    IN  [m EXCEPT !.current_schedule = update_recompute(m)]

C8_Step ==
    /\ Cardinality(frames') <= 1
    /\ \A f \in frames :
        f \notin frames' =>
            sessions'[f.sid] = update_alone(f.pre, f.idx, f.action)

\* C8: update calls on a session do not overlap, and each leaves the
\* session as the call run alone on the session it found would: the calls
\* take effect one at a time, in the order they run.
C8_UpdatesSerialized == [][C8_Step]_vars

\* two update requests that waited together have both succeeded
C8_Witness ==
    \E sid \in DOMAIN sessions :
        /\ batch[sid].conc
        /\ Len(produced[sid]) = 2
        /\ NoUpdateRunning(sid)

\* the schedules of the schedule_update messages of an inbox, in order
UpdatesOf(box) ==
    LET IsUpdate(m) == m.type = "schedule_update"
        ups == SelectSeq(box, IsUpdate)
    IN  [k \in 1..Len(ups) |-> ups[k].schedule]

SchedulesOf(hist) == [k \in 1..Len(hist) |-> hist[k].schedule]

\* nothing of the session is waiting or running on the loop
Quiet(sid) ==
    /\ ~UpdatePending(sid)
    /\ \A b \in DOMAIN bcasts :
        bcasts[b].sid = sid => bcasts[b].pc \in {"unused", "done"}

\* the socket is on the list realtime_start made for its session, and
\* that list is the session's list
Subscribed(w) ==
    /\ ws[w].sid \in DOMAIN ws_connections
    /\ ws_connections[ws[w].sid] = <<ws[w].sid, "start">>
    /\ Has(lists[<<ws[w].sid, "start">>], w)

\* C9: a subscriber that connected before the first of N updates issued one
\* after the other, and is still connected and on its session's list when
\* they and their broadcasts are over, has received exactly the N schedules
\* they produced, in order.
C9_SubscriberGetsEveryUpdate ==
    \A w \in Sockets :
        LET sid == ws[w].sid IN
        (/\ ws[w].pc = "listening" /\ ws[w].alive
         /\ ws[w].from = 0
         /\ Subscribed(w)
         /\ ~batch[sid].conc
         /\ Quiet(sid))
        => UpdatesOf(inbox[w]) = SchedulesOf(produced[sid])

\* the place of a schedule among those the updates of a session produced
Version(sid, schedule) ==
    CHOOSE k \in 0..Len(produced[sid]) :
        \/ k > 0 /\ produced[sid][k].schedule = schedule
        \/ k = 0 /\ \A j \in 1..Len(produced[sid]) :
                        produced[sid][j].schedule # schedule

\* C10: no subscriber on its session's list receives the schedule of an
\* earlier update after that of a later update of the same session.
C10_NoReordering ==
    \A w \in Sockets :
        LET ups == UpdatesOf(inbox[w]) IN
        Subscribed(w) =>
            \A i, j \in 1..Len(ups) :
                i < j => Version(ws[w].sid, ups[i])
                            <= Version(ws[w].sid, ups[j])

conns_after(sid) ==
    IF sid \notin DOMAIN ws_connections' THEN <<>>
    ELSE lists'[ws_connections'[sid]]

\* the broadcast task b ends with this step
Finishes(b) == bcasts[b].pc = "running" /\ bcasts'[b].pc = "done"

\* the socket was on the list when the task b started, is on the session's
\* list when b ends, and its client is there
RegisteredThroughout(b, w) ==
    /\ Has(bcasts[b].begin, w)
    /\ Has(conns_after(bcasts[b].sid), w)
    /\ ws[w].alive

\* the task b goes through the list realtime_start made for its session
OnStartList(b) == bcasts[b].conns = <<bcasts[b].sid, "start">>

C12_Step ==
    \A b \in DOMAIN bcasts :
        (Finishes(b) /\ OnStartList(b) /\ bcasts[b].dead # <<>>) =>
            /\ \A k \in 1..Len(bcasts[b].dead) :
                    ~Has(conns_after(bcasts[b].sid), bcasts[b].dead[k])
            /\ \A w \in Sockets :
                    (RegisteredThroughout(b, w) /\ ~Has(bcasts[b].dead, w))
                        => w \in bcasts[b].sent

\* C12: when a send to one subscriber fails during a publish, that
\* subscriber is off the session's list when the publish ends, and every
\* other subscriber registered during the publish has been sent the
\* snapshot.
C12_SendFailureIsolated == [][C12_Step]_vars

\* the socket was on the list when the task b started and its own handler
\* has taken it off since: no send to it failed
LeftDuring(b, w) ==
    /\ Has(bcasts[b].begin, w)
    /\ ~Has(bcasts[b].dead, w)
    /\ ws[w].pc = "closed"

C19_Step ==
    \A b \in DOMAIN bcasts :
        (Finishes(b) /\ OnStartList(b)
            /\ \E d \in Sockets : LeftDuring(b, d)) =>
            /\ \A d \in Sockets :
                    LeftDuring(b, d) => ~Has(conns_after(bcasts[b].sid), d)
            /\ \A w \in Sockets :
                    RegisteredThroughout(b, w) => w \in bcasts[b].sent

\* C19: when a subscriber disconnects while a publish to its session is
\* going through the subscribers, it is off the session's list when the
\* publish ends and every other subscriber registered during the whole
\* publish has been sent the snapshot.
C19_DisconnectDuringPublish == [][C19_Step]_vars

\* the entries of a schedule that are no breaks
NonBreak(schedule) ==
    LET IsTask(e) == e.type # "Break" IN SelectSeq(schedule, IsTask)

\* C13: whatever the classifier comes back with, schedule generation
\* answers with a schedule that has exactly one non-Break entry for each
\* input task text, and the request does not fail.
C13_EveryTaskScheduled ==
    response.status # "none" =>
        /\ response.status = "ok"
        /\ Len(NonBreak(response.schedule)) = Len(response.input.tasks)
        /\ \A i \in 1..Len(response.input.tasks) :
                Cardinality({k \in 1..Len(response.schedule) :
                    /\ response.schedule[k].type # "Break"
                    /\ response.schedule[k].task = response.input.tasks[i]})
                    = 1

\* how many entries of a sequence of tasks or schedule entries carry a type
CountType(seq, t_type) ==
    Cardinality({i \in 1..Len(seq) : seq[i].type = t_type})

\* C14: with N Deep Work tasks in the input, the schedule holds N \div 2
\* Break entries, and the Break entries are exactly the entries that come
\* right after the 2nd, 4th, ... Deep Work entry.
C14_BreakRule ==
    out.done =>
        LET s == out.schedule IN
        /\ CountType(s, "Break") = CountType(in_tasks, "Deep Work") \div 2
        /\ \A i \in 1..Len(s) :
                s[i].type = "Break" <=>
                    /\ i > 1
                    /\ s[i - 1].type = "Deep Work"
                    /\ CountType(SubSeq(s, 1, i - 1), "Deep Work") % 2 = 0

\* a schedule of five Deep Work tasks (two breaks, the last task has none
\* after it) and tasks of other types
C14_Witness ==
    /\ out.done
    /\ CountType(in_tasks, "Deep Work") = 5
    /\ CountType(out.schedule, "Break") = 2
    /\ Len(in_tasks) > 5

\* the place of a task text in the input
InputIndex(text) == CHOOSE i \in 1..Len(in_tasks) : in_tasks[i].task = text

\* C15: the task entries of the schedule come in non-decreasing type
\* priority, and tasks of equal priority come in their input order (stated
\* on each entry and the next, which gives it for every pair).
C15_StableByPriority ==
    out.done =>
        LET s == NonBreak(out.schedule) IN
        /\ Len(s) = Len(in_tasks)
        /\ \A i \in 1..(Len(s) - 1) :
                /\ type_priority(s[i].type) <= type_priority(s[i + 1].type)
                /\ type_priority(s[i].type) = type_priority(s[i + 1].type)
                        => InputIndex(s[i].task) < InputIndex(s[i + 1].task)

\* an input the sort has to reorder: a Shallow task, then an Unknown task
\* (equal priority), then Deep Work tasks
C15_Witness ==
    /\ out.done
    /\ Len(in_tasks) > 3
    /\ in_tasks[1].type = "Shallow"
    /\ in_tasks[2].type = "Unknown"
    /\ in_tasks[3].type = "Deep Work"

\* the zone the rule gives a task of a type at an energy and a lower-cased
\* mood
RuleZone(t_type, energy, ml) ==
    CASE t_type = "Deep Work" ->
            (IF energy >= 7 /\ ml # "tired" /\ ml # "low" THEN "high"
             ELSE IF energy >= 4 THEN "medium" ELSE "low")
      [] t_type = "Creative" /\ ml \in {"happy", "excited", "inspired"} ->
            (IF energy >= 5 THEN "high" ELSE "medium")
      [] OTHER ->
            (IF energy >= 5 THEN "medium" ELSE "low")

\* the labels of the schedule's entries before the i-th
ClaimedBefore(schedule, i) == {schedule[j].time : j \in 1..(i - 1)}

\* the labels of a zone no entry before the i-th has
Unclaimed(zone, schedule, i) ==
    LET claimed == ClaimedBefore(schedule, i)
    IN  {k \in 1..Len(energy_slots[zone]) :
            energy_slots[zone][k] \notin claimed}

\* C16: a task whose zone (by the rule on type, energy and lower-cased
\* mood, with >= at 4, 5 and 7) still has an unclaimed label gets the first
\* unclaimed label of that zone.
C16_FirstFreeOfZone ==
    out.done =>
        LET s == out.schedule IN
        \A i \in 1..Len(s) :
            LET zone == RuleZone(s[i].type, in_energy, mood_lower(in_mood))
                free == Unclaimed(zone, s, i)
            IN  (s[i].type # "Break" /\ free # {}) =>
                    \E k \in free :
                        /\ s[i].time = energy_slots[zone][k]
                        /\ \A m \in free : k <= m

\* Deep Work at energy 7 in the high zone, with a break that has claimed a
\* label of that zone before the third task
C16_Witness ==
    /\ out.done
    /\ in_energy = 7
    /\ in_mood = "Happy"
    /\ Len(out.schedule) >= 4
    /\ out.schedule[3].type = "Break"
    /\ out.schedule[3].time = "11 AM"
    /\ out.schedule[4].time = "12 PM"

\* the places in the flattened base labels no entry before the i-th has
UnclaimedBase(schedule, i) ==
    LET claimed == ClaimedBefore(schedule, i)
    IN  {k \in 1..Len(all_slots_flat) : all_slots_flat[k] \notin claimed}

\* C17: a task whose zone has no unclaimed label gets the first unclaimed
\* base label in the order high, medium, low while there is one; a label
\* with a numbered suffix is given only when all 12 base labels are claimed.
C17_FallbackScansAllZones ==
    out.done =>
        LET s == out.schedule IN
        \A i \in 1..Len(s) :
            LET zone == RuleZone(s[i].type, in_energy, mood_lower(in_mood))
                base == UnclaimedBase(s, i)
            IN  (/\ s[i].type # "Break"
                 /\ Unclaimed(zone, s, i) = {}
                 /\ base # {}) =>
                    \E k \in base :
                        /\ s[i].time = all_slots_flat[k]
                        /\ \A m \in base : k <= m

\* the socket is on its session's list, its handler waits in receive_text
\* and its client is there
Registered(w) ==
    /\ ws[w].pc = "listening"
    /\ ws[w].alive
    /\ Has(ListOf(get_conns(ws[w].sid)), w)

C18_Step ==
    \A w \in Sockets :
        Registered(w) => Has(conns_after(ws[w].sid), w)

\* C18: a registered subscriber that has not disconnected, and to which no
\* send has failed, is still on its session's list after every step of the
\* start handler, of an update, of a publish and of another subscriber.
C18_SubscriberStays == [][C18_Step]_vars

\* the entries of a schedule whose label is no base label
Synthesized(schedule) ==
    {i \in 1..Len(schedule) : schedule[i].time \notin BaseSlots}

\* the label an entry gets when slot_extension_counter is counter
SynthesizedLabel(entry, counter) ==
    IF entry.type = "Break" THEN break_label(counter)
    ELSE extended_label(counter)

\* C20: the call returns for every task list, each search for a synthesized
\* label ends (at its first label: the synthesized labels of the schedule
\* are those of the counter values 0, 1, 2, ... in order, none left out), and
\* every task and every break has a label.
C20_EveryEntryHasSlot ==
    out.done =>
        LET s     == out.schedule
            IsSyn(e) == e.time \notin BaseSlots
            syn   == SelectSeq(s, IsSyn)
        IN
        /\ Len(s) = Len(in_tasks) + (CountType(in_tasks, "Deep Work") \div 2)
        /\ \A i \in 1..Len(s) : s[i].time # NoSlot /\ s[i].time # ""
        /\ \A k \in 1..Len(syn) :
                syn[k].time = SynthesizedLabel(syn[k], k - 1)

\* more tasks than base labels: a task and a break carry synthesized labels
C20_Witness ==
    /\ out.done
    /\ Len(in_tasks) > Len(all_slots_flat)
    /\ \E i, j \in Synthesized(out.schedule) :
            /\ out.schedule[i].type = "Break"
            /\ out.schedule[j].type # "Break"

====
